---- MODULE Spec2Model ----
(***************************************************************************)
(* Model of the modeling_metrics benchmarking pipeline.                    *)
(*                                                                         *)
(*   SpecScore : metrics/dockqcal.py  -- define_path, run_dockq, main      *)
(*   SpecCorr  : metrics/correlation.py -- compute_correlations,           *)
(*               correlation                                               *)
(*   SpecCli   : metrics/metrics.py and correlation.main -- the command    *)
(*               line handed to correlation()                              *)
(*                                                                         *)
(* File names and ids are sequences of one-character strings, so that the  *)
(* glob pattern, the stem split and the string sort are computed.          *)
(***************************************************************************)
EXTENDS Integers, Sequences, FiniteSets, TLC

VARIABLES
    \* ---- dockqcal.py ----
    df_model,      \* model metadata table: sequence of [id, rank]
    df_native,     \* native metadata table: set of [id, pdb_id]
    model_files,   \* names of the structure files present in model_dir
    native_files,  \* names of the files present in native_dir
    tmp_exists,    \* whether <model_dir>/tmp exists
    pc,            \* position of dockqcal.main
    error,         \* the exception that ended the run, or "none"
    df,            \* the table define_path returned (rows carry their index label)
    results,       \* main's list of result rows
    invoked,       \* the (model_path, native_path) pairs the scorer was run on
    df_results,    \* the enriched table main writes
    \* ---- correlation.py ----
    cdf,           \* the enriched table correlation() is given
    methods,       \* requested method subsets (sequence)
    metrics,       \* requested statistic kinds (set; the code only tests membership)
    features,      \* requested feature columns (sequence)
    k,             \* number of entries of methods already handled
    method_df,     \* the subset selected for the entry handled last
    all_results,   \* list of per-method result tables
    cpc,           \* position of correlation()
    report,        \* the table correlation() returns
    \* ---- metrics.py ----
    argv           \* the command line correlation.main parses, <<>> before a launch

scoreVars == <<df_model, df_native, model_files, native_files, tmp_exists, pc,
               error, df, results, invoked, df_results>>
corrVars  == <<cdf, methods, metrics, features, k, method_df, all_results, cpc, report>>
cliVars   == <<argv>>
vars      == <<scoreVars, corrVars, cliVars>>

\* an absent value (None, NaN); a present number v is the one-element sequence <<v>>
NaN == <<>>
Num(v) == <<v>>

------------------------------------------------------------------------------
(* Bounds *)

MaxModels == 2     \* rows of the model metadata table
MaxRows   == 3     \* rows of the enriched table given to correlation()

------------------------------------------------------------------------------
(* Strings *)

RECURSIVE IsPrefix(_, _)
IsPrefix(p, s) ==
    IF p = <<>> THEN TRUE
    ELSE IF s = <<>> THEN FALSE
    ELSE Head(p) = Head(s) /\ IsPrefix(Tail(p), Tail(s))

IsSuffix(p, s) ==
    /\ Len(p) <= Len(s)
    /\ SubSeq(s, Len(s) - Len(p) + 1, Len(s)) = p

CharCode(c) ==
    CASE c = "." -> 46
      [] c = "0" -> 48
      [] c = "1" -> 49
      [] c = "2" -> 50
      [] c = "3" -> 51
      [] c = "A" -> 65
      [] c = "B" -> 66
      [] c = "T" -> 84
      [] c = "_" -> 95
      [] OTHER   -> 120

\* Python's str comparison
RECURSIVE StrLess(_, _)
StrLess(a, b) ==
    IF b = <<>> THEN FALSE
    ELSE IF a = <<>> THEN TRUE
    ELSE IF Head(a) = Head(b) THEN StrLess(Tail(a), Tail(b))
    ELSE CharCode(Head(a)) < CharCode(Head(b))

Digit(d) ==
    CASE d = 0 -> "0" [] d = 1 -> "1" [] d = 2 -> "2" [] d = 3 -> "3" [] d = 4 -> "4"
      [] d = 5 -> "5" [] d = 6 -> "6" [] d = 7 -> "7" [] d = 8 -> "8" [] d = 9 -> "9"

\* str(rank)
RECURSIVE Str(_)
Str(n) == IF n < 10 THEN <<Digit(n)>> ELSE Str(n \div 10) \o <<Digit(n % 10)>>

DotPdb == <<".", "p", "d", "b">>
DotCif == <<".", "c", "i", "f">>

\* Path(name).stem for a name ending in .pdb
Stem(name) == SubSeq(name, 1, Len(name) - Len(DotPdb))

\* s.split('_')[-1]
RECURSIVE SplitLast(_)
SplitLast(s) ==
    IF s = <<>> THEN <<>>
    ELSE IF s[Len(s)] = "_" THEN <<>>
    ELSE SplitLast(SubSeq(s, 1, Len(s) - 1)) \o <<s[Len(s)]>>

\* sequence of the elements of a set of strings, in string order
RECURSIVE SortedNames(_)
SortedNames(S) ==
    IF S = {} THEN <<>>
    ELSE LET m == CHOOSE x \in S : \A y \in S \ {x} : StrLess(x, y)
         IN <<m>> \o SortedNames(S \ {m})

RECURSIVE SeqToSet(_)
SeqToSet(s) == IF s = <<>> THEN {} ELSE {Head(s)} \cup SeqToSet(Tail(s))

RECURSIVE Flatten(_)
Flatten(ss) == IF ss = <<>> THEN <<>> ELSE Head(ss) \o Flatten(Tail(ss))

------------------------------------------------------------------------------
(* dockqcal.py : define_path *)

T1  == <<"T", "1">>
T10 == <<"T", "1", "0">>

TargetIds == {T1, T10}
Versions  == {<<"A">>, <<"B">>}
Ranks     == {1, 2}
Formats   == {"pdb", "cif"}

ModelRecords  == [id : TargetIds, rank : Ranks]
NativeRecords == [id : TargetIds, pdb_id : Versions]

\* f"{id}_{rank}.{format}" (relative to model_dir)
ModelPath(id, rank, format) ==
    id \o <<"_">> \o Str(rank) \o (IF format = "pdb" THEN DotPdb ELSE DotCif)

\* the structure file of a native record, <id>_<pdb_id>.pdb (relative to native_dir)
NativeName(n) == n.id \o <<"_">> \o n.pdb_id \o DotPdb

\* f"{id}_{rank}_{version}.json" under model_dir/tmp
JsonPath(id, rank, version) ==
    <<"t", "m", "p", "/">> \o id \o <<"_">> \o Str(rank) \o <<"_">> \o version
        \o <<".", "j", "s", "o", "n">>

\* df_model[df_model['id'].isin(df_native['id'])]
FilterModel(dm, dn) == SelectSeq(dm, LAMBDA m : m.id \in {n.id : n \in dn})

\* the format chosen from the *.pdb / *.cif files of model_dir
DetectFormat(mfiles) ==
    IF \E f \in mfiles : IsSuffix(DotPdb, f) THEN "pdb"
    ELSE IF \E f \in mfiles : IsSuffix(DotCif, f) THEN "cif"
    ELSE "none"

\* list(Path(native_dir).glob(f"{id}*.pdb")), listed in name order
NativeGlob(id, nfiles) ==
    SortedNames({f \in nfiles : /\ IsPrefix(id, f)
                                /\ IsSuffix(DotPdb, f)
                                /\ Len(f) >= Len(id) + Len(DotPdb)})

\* the rows the inner loop appends for one (id, rank) of the filtered table
RowsFor(m, format, nfiles) ==
    LET found == NativeGlob(m.id, nfiles)
    IN [i \in 1..Len(found) |->
          LET version == SplitLast(Stem(found[i]))
          IN [id          |-> m.id,
              rank        |-> m.rank,
              model_path  |-> ModelPath(m.id, m.rank, format),
              native_path |-> found[i],
              json_path   |-> JsonPath(m.id, m.rank, version),
              native_pdb  |-> version]]

\* df.merge(df_native, left_on=[id, native_pdb], right_on=[id, pdb_id], how="left"):
\* left order kept, a fresh 0-based index, chains_native absent where nothing matches
MergeNative(rows, dn) ==
    [i \in 1..Len(rows) |->
        [index         |-> i - 1,
         id            |-> rows[i].id,
         rank          |-> rows[i].rank,
         model_path    |-> rows[i].model_path,
         native_path   |-> rows[i].native_path,
         json_path     |-> rows[i].json_path,
         native_pdb    |-> rows[i].native_pdb,
         chains_native |-> IF [id |-> rows[i].id, pdb_id |-> rows[i].native_pdb] \in dn
                           THEN <<"chains">> ELSE NaN]]

\* order of sort_values(by=["id", "native_pdb", "rank"]), ties in their former order
RowLess(a, b) ==
    \/ StrLess(a.id, b.id)
    \/ /\ a.id = b.id
       /\ \/ StrLess(a.native_pdb, b.native_pdb)
          \/ /\ a.native_pdb = b.native_pdb
             /\ \/ a.rank < b.rank
                \/ a.rank = b.rank /\ a.index < b.index

RECURSIVE SortRowSet(_)
SortRowSet(S) ==
    IF S = {} THEN <<>>
    ELSE LET m == CHOOSE x \in S : \A y \in S \ {x} : RowLess(x, y)
         IN <<m>> \o SortRowSet(S \ {m})

\* sort_values(..., inplace=True): rows move, index labels stay with their rows
SortValues(rows) == SortRowSet(SeqToSet(rows))

\* define_path: the exception it raises (or "none"), whether it got as far as
\* os.makedirs(<model_dir>/tmp), and the table it returns
DefinePath(dm, dn, mfiles, nfiles) ==
    LET kept   == FilterModel(dm, dn)
        format == DetectFormat(mfiles)
        rows   == Flatten([i \in 1..Len(kept) |-> RowsFor(kept[i], format, nfiles)])
    IN IF format = "none"
       THEN [error |-> "NoStructureFiles", made_tmp |-> FALSE, rows |-> <<>>]
       ELSE IF \E i \in 1..Len(kept) : NativeGlob(kept[i].id, nfiles) = <<>>
       THEN [error |-> "NoNativeFiles", made_tmp |-> TRUE, rows |-> <<>>]
       ELSE IF rows = <<>>
       THEN \* pd.DataFrame([]) has no column "id": merge raises
            [error |-> "KeyError", made_tmp |-> TRUE, rows |-> <<>>]
       ELSE [error |-> "none", made_tmp |-> TRUE,
             rows |-> SortValues(MergeNative(rows, dn))]

------------------------------------------------------------------------------
(* dockqcal.py : run_dockq, main *)

\* round(x, 3) of a reported value; the values of a report are kept symbolic
Round3(x) == IF x = NaN THEN NaN ELSE <<"round3", x>>

\* the JSON report the scorer writes for one pair of structure files
ScorerReport(model_path, native_path) ==
    [GlobalDockQ |-> <<"GlobalDockQ", model_path, native_path>>,
     iRMSD       |-> <<"iRMSD", model_path, native_path>>,
     LRMSD       |-> <<"LRMSD", model_path, native_path>>,
     fnat        |-> <<"fnat", model_path, native_path>>]

\* the result row main builds from the parsed report of one table row
ResultRow(row) ==
    LET rep == ScorerReport(row.model_path, row.native_path)
        has == row.chains_native # NaN    \* best_result.get(native_chain, {})
    IN [dockq |-> Round3(rep.GlobalDockQ),
        irmsd |-> IF has THEN Round3(rep.iRMSD) ELSE NaN,
        lrsd  |-> IF has THEN Round3(rep.LRMSD) ELSE NaN,
        fnat  |-> IF has THEN Round3(rep.fnat) ELSE NaN]

\* df_results[col] = results_df[col]: results_df is indexed 0..n-1 in the order the
\* loop ran, and the assignment aligns it with df on the index labels
AssignResults(rows, res) ==
    [p \in 1..Len(rows) |->
        LET r == IF rows[p].index + 1 \in 1..Len(res)
                 THEN res[rows[p].index + 1]
                 ELSE [dockq |-> NaN, irmsd |-> NaN, lrsd |-> NaN, fnat |-> NaN]
        IN [id            |-> rows[p].id,
            rank          |-> rows[p].rank,
            native_pdb    |-> rows[p].native_pdb,
            chains_native |-> rows[p].chains_native,
            dockq         |-> r.dockq,
            irmsd         |-> r.irmsd,
            lrsd          |-> r.lrsd,
            fnat          |-> r.fnat]]

RECURSIVE DistinctSeqs(_, _)
DistinctSeqs(S, n) ==
    IF n = 0 THEN {<<>>}
    ELSE LET shorter == DistinctSeqs(S, n - 1)
         IN shorter \cup {Append(s, x) : s \in {t \in shorter : Len(t) = n - 1},
                                         x \in S} 

NoDuplicates(s) == \A i, j \in 1..Len(s) : i # j => s[i] # s[j]

CorrIdle ==
    /\ cdf = <<>> /\ methods = <<>> /\ metrics = {} /\ features = <<>>
    /\ k = 0 /\ method_df = <<>> /\ all_results = <<>> /\ cpc = "idle"
    /\ report = <<>>

CliIdle == argv = <<>>

InitScore ==
    /\ df_model \in {s \in DistinctSeqs(ModelRecords, MaxModels) : NoDuplicates(s)}
    /\ df_native \in SUBSET NativeRecords
    /\ native_files \in SUBSET {NativeName(n) : n \in df_native}
    /\ model_files \in SUBSET {ModelPath(df_model[i].id, df_model[i].rank, f) :
                                 i \in 1..Len(df_model), f \in Formats}
    /\ tmp_exists = FALSE
    /\ pc = "start"
    /\ error = "none"
    /\ df = <<>>
    /\ results = <<>>
    /\ invoked = {}
    /\ df_results = <<>>
    /\ CorrIdle
    /\ CliIdle

\* main, lines 182-186: define_path, then os.makedirs(tmp_dir, exist_ok=True)
Resolve ==
    /\ pc = "start"
    /\ LET r == DefinePath(df_model, df_native, model_files, native_files)
       IN IF r.error # "none"
          THEN /\ pc' = "aborted"
               /\ error' = r.error
               /\ tmp_exists' = (tmp_exists \/ r.made_tmp)
               /\ UNCHANGED df
          ELSE /\ pc' = "scoring"
               /\ df' = r.rows
               /\ tmp_exists' = TRUE
               /\ UNCHANGED error
    /\ UNCHANGED <<df_model, df_native, model_files, native_files, results, invoked,
                   df_results, corrVars, cliVars>>

\* one iteration of the loop in which the scorer exits with status 0
ScoreOk ==
    /\ pc = "scoring"
    /\ Len(results) < Len(df)
    /\ LET row == df[Len(results) + 1]
       IN /\ row.model_path \in model_files
          /\ row.native_path \in native_files
          /\ invoked' = invoked \cup {<<row.model_path, row.native_path>>}
          /\ results' = Append(results, ResultRow(row))
    /\ UNCHANGED <<df_model, df_native, model_files, native_files, tmp_exists, pc,
                   error, df, df_results, corrVars, cliVars>>

\* one iteration in which the scorer exits non-zero: subprocess.run(check=True)
\* raises, nothing catches it, the finally clause removes tmp and main ends
ScoreFail ==
    /\ pc = "scoring"
    /\ Len(results) < Len(df)
    /\ LET row == df[Len(results) + 1]
       IN invoked' = invoked \cup {<<row.model_path, row.native_path>>}
    /\ tmp_exists' = FALSE
    /\ pc' = "aborted"
    /\ error' = "CalledProcessError"
    /\ UNCHANGED <<df_model, df_native, model_files, native_files, df, results,
                   df_results, corrVars, cliVars>>

\* the loop is over: finally removes tmp, the results are attached and written
Aggregate ==
    /\ pc = "scoring"
    /\ Len(results) = Len(df)
    /\ tmp_exists' = FALSE
    /\ df_results' = AssignResults(df, results)
    /\ pc' = "done"
    /\ UNCHANGED <<df_model, df_native, model_files, native_files, error, df, results,
                   invoked, corrVars, cliVars>>

NextScore == Resolve \/ ScoreOk \/ ScoreFail \/ Aggregate

SpecScore == InitScore /\ [][NextScore]_vars

------------------------------------------------------------------------------
(* Claims about the scoring batch (checked under SpecScore) *)

RunEnded == pc \in {"done", "aborted"}

ResolutionErrors == {"NoStructureFiles", "NoNativeFiles", "KeyError"}

\* C1: a non-zero exit of the scorer for one triple fails that triple only: the
\* batch is not aborted, and when it ends the enriched table has one row per
\* triple, the failed triple's row with an absent score.
C1_ScorerFailureIsPerTriple ==
    error = "CalledProcessError" =>
        /\ pc # "aborted"
        /\ pc = "done" => Len(df_results) = Len(df)

\* C2: when some id of the model table is absent from the native table, path
\* resolution ends in an error; the record is never dropped and the run carried on.
C2_UnmatchedIdFailsResolution ==
    (/\ pc # "start"
     /\ \E i \in 1..Len(df_model) : df_model[i].id \notin {n.id : n \in df_native})
        => pc = "aborted" /\ error \in ResolutionErrors

\* C3: every row of the enriched table carries the scores obtained from that row's
\* own model_path / native_path pair (stated for the runs in which every row pairs
\* a model with a native structure of its own id).
C3_RowCarriesOwnScore ==
    (/\ pc = "done"
     /\ \A p \in 1..Len(df) : IsPrefix(df[p].id \o <<"_">>, df[p].native_path))
        => \A p \in 1..Len(df_results) :
              LET own == ResultRow(df[p])
              IN /\ df_results[p].dockq = own.dockq
                 /\ df_results[p].irmsd = own.irmsd
                 /\ df_results[p].lrsd = own.lrsd
                 /\ df_results[p].fnat = own.fnat

\* C4: when every model id has a native record (and every native record its
\* structure file), define_path returns one row per (model record, native record
\* of the same id) pair, and no row pairs a model with the native of another id.
C4_TriplesAreSameIdPairs ==
    (/\ df # <<>>
     /\ \A i \in 1..Len(df_model) : df_model[i].id \in {n.id : n \in df_native}
     /\ native_files = {NativeName(n) : n \in df_native})
        => /\ Len(df) = Cardinality({<<i, n>> \in (1..Len(df_model)) \X df_native :
                                        n.id = df_model[i].id})
           /\ \A p \in 1..Len(df) :
                 df[p].native_path \in {NativeName(n) : n \in {x \in df_native :
                                                                x.id = df[p].id}}

\* C6: when the run has ended, on whatever path, <model_dir>/tmp does not exist
\* (stated for normal completion and for the errors the code raises itself).
C6_TmpRemovedOnEveryExit == (RunEnded /\ error # "KeyError") => ~tmp_exists

\* C7: when the structure file of some triple is missing, the scorer has not been
\* invoked for any triple.
C7_MissingFileStopsBeforeScoring ==
    (\E p \in 1..Len(df) : \/ df[p].model_path \notin model_files
                           \/ df[p].native_path \notin native_files)
        => invoked = {}

------------------------------------------------------------------------------
(* correlation.py : compute_correlations *)

RECURSIVE SumSeq(_)
SumSeq(s) == IF s = <<>> THEN 0 ELSE Head(s) + SumSeq(Tail(s))

Column(rows, col) == [i \in 1..Len(rows) |-> rows[i][col]]

\* n * sum(x*y) - sum(x) * sum(y): n^2 times the covariance
Cov(xs, ys) ==
    Len(xs) * SumSeq([i \in 1..Len(xs) |-> xs[i] * ys[i]]) - SumSeq(xs) * SumSeq(ys)

RECURSIVE ISqrtIn(_, _, _)
ISqrtIn(n, lo, hi) ==
    IF lo = hi THEN lo
    ELSE LET mid == (lo + hi + 1) \div 2
         IN IF mid * mid <= n THEN ISqrtIn(n, mid, hi) ELSE ISqrtIn(n, lo, mid - 1)

\* floor((q + r / den) * 10^steps), by long division
RECURSIVE MulDiv10(_, _, _, _)
MulDiv10(q, r, den, steps) ==
    IF steps = 0 THEN q
    ELSE MulDiv10(10 * q + (10 * r) \div den, (10 * r) % den, den, steps - 1)

\* round(sqrt(num / den), 3) in thousandths, for 0 <= num <= den:
\* the k with (2k-1)^2 <= 4*10^6 * num / den < (2k+1)^2
Round3Sqrt(num, den) ==
    (ISqrtIn(MulDiv10((4 * num) \div den, (4 * num) % den, den, 6), 0, 2000) + 1) \div 2

\* the r of scipy's pearsonr on integer samples, rounded to 3 decimals and held in
\* thousandths; NaN when y holds a NaN or when either sample is constant
PearsonR(xs, ys) ==
    IF \E i \in 1..Len(ys) : ys[i] = NaN THEN NaN
    ELSE LET yv == [i \in 1..Len(ys) |-> ys[i][1]]
             c  == Cov(xs, yv)
             vx == Cov(xs, xs)
             vy == Cov(yv, yv)
         IN IF vx = 0 \/ vy = 0 THEN NaN
            ELSE IF c >= 0 THEN Num(Round3Sqrt(c * c, vx * vy))
            ELSE Num(0 - Round3Sqrt(c * c, vx * vy))

\* twice the average rank of each element (scipy's rankdata, doubled to stay integral)
Rank2(xs) ==
    [i \in 1..Len(xs) |->
        2 * Cardinality({j \in 1..Len(xs) : xs[j] < xs[i]})
          + Cardinality({j \in 1..Len(xs) : xs[j] = xs[i]}) + 1]

\* the r of scipy's spearmanr (nan_policy="propagate"): Pearson's r of the ranks
SpearmanR(xs, ys) ==
    IF \E i \in 1..Len(ys) : ys[i] = NaN THEN NaN
    ELSE LET yr == Rank2([i \in 1..Len(ys) |-> ys[i][1]])
         IN PearsonR(Rank2(xs), [i \in 1..Len(yr) |-> Num(yr[i])])

\* the p-value that comes with a coefficient: defined exactly when the coefficient
\* is; its magnitude is not modelled
PValue(r) == IF r = NaN THEN NaN ELSE <<"p">>

\* len(np.unique(x)) <= 1
IsConstant(xs) == Cardinality({xs[i] : i \in 1..Len(xs)}) <= 1

\* the feature loop without the continue that ends the constant-feature branch
FeatureRowsNoContinue(sub, feat, kinds) ==
    LET x == Column(sub, feat)
        y == Column(sub, "dockq")
        undefinedRows ==
            [i \in 1..Cardinality(kinds \cap {"pearson", "spearman"}) |->
                [feature |-> feat,
                 metric  |-> IF i = 1 /\ "pearson" \in kinds THEN "pearson" ELSE "spearman",
                 r |-> NaN, p_value |-> NaN]]
        pearson  == PearsonR(x, y)
        spearman == SpearmanR(x, y)
    IN (IF IsConstant(x) THEN undefinedRows ELSE <<>>)
       \o (IF "pearson" \in kinds
           THEN <<[feature |-> feat, metric |-> "pearson",
                   r |-> pearson, p_value |-> PValue(pearson)]>>
           ELSE <<>>)
       \o (IF "spearman" \in kinds
           THEN <<[feature |-> feat, metric |-> "spearman",
                   r |-> spearman, p_value |-> PValue(spearman)]>>
           ELSE <<>>)

\* the rows one pass of the feature loop appends
FeatureRows(sub, feat, kinds) ==
    LET x == Column(sub, feat)
        y == Column(sub, "dockq")
        undefinedRow(kind) ==
            [feature |-> feat, metric |-> kind, r |-> NaN, p_value |-> NaN]
        pearson  == PearsonR(x, y)
        spearman == SpearmanR(x, y)
    IN IF IsConstant(x)
       THEN (IF "pearson" \in kinds THEN <<undefinedRow("pearson")>> ELSE <<>>)
            \o (IF "spearman" \in kinds THEN <<undefinedRow("spearman")>> ELSE <<>>)
       ELSE (IF "pearson" \in kinds
             THEN <<[feature |-> feat, metric |-> "pearson",
                     r |-> pearson, p_value |-> PValue(pearson)]>>
             ELSE <<>>)
            \o (IF "spearman" \in kinds
                THEN <<[feature |-> feat, metric |-> "spearman",
                        r |-> spearman, p_value |-> PValue(spearman)]>>
                ELSE <<>>)

\* string order of the column values sorted on
NameOrder(name) ==
    CASE name = "iptm" -> 1 [] name = "pearson" -> 2 [] name = "plddt" -> 3
      [] name = "ptm" -> 4 [] name = "spearman" -> 5 [] OTHER -> 6

\* sort_values(["feature", "metric", "r"], ascending=[True, True, False]); NaN last,
\* ties in their former order (rows are <<position, row>>)
ResultLess(a, b) ==
    \/ NameOrder(a[2].feature) < NameOrder(b[2].feature)
    \/ /\ a[2].feature = b[2].feature
       /\ \/ NameOrder(a[2].metric) < NameOrder(b[2].metric)
          \/ /\ a[2].metric = b[2].metric
             /\ \/ a[2].r # NaN /\ b[2].r = NaN
                \/ a[2].r # NaN /\ b[2].r # NaN /\ a[2].r[1] > b[2].r[1]
                \/ a[2].r = b[2].r /\ a[1] < b[1]

RECURSIVE SortResultSet(_)
SortResultSet(S) ==
    IF S = {} THEN <<>>
    ELSE LET m == CHOOSE x \in S : \A y \in S \ {x} : ResultLess(x, y)
         IN <<m[2]>> \o SortResultSet(S \ {m})

SortResults(rows) == SortResultSet({<<i, rows[i]>> : i \in 1..Len(rows)})

\* compute_correlations: the sorted rows, or "raise" when no row was appended
\* (sort_values on a frame without columns raises KeyError)
ComputeCorrelations(sub, kinds, feats) ==
    LET rows == Flatten([i \in 1..Len(feats) |-> FeatureRows(sub, feats[i], kinds)])
    IN IF rows = <<>> THEN [raised |-> TRUE, rows |-> <<>>]
       ELSE [raised |-> FALSE, rows |-> SortResults(rows)]

------------------------------------------------------------------------------
(* correlation.py : correlation *)

Rank1SubsetZeroBased(rows) == SelectSeq(rows, LAMBDA row : row.rank = 0)

\* df[df["rank"] == 1]
Rank1Subset(rows) == SelectSeq(rows, LAMBDA row : row.rank = 1)

\* the ids of a table in groupby order (the table is sorted by id)
RECURSIVE GroupIds(_)
GroupIds(rows) ==
    IF rows = <<>> THEN <<>>
    ELSE LET rest == GroupIds(Tail(rows))
         IN IF rest # <<>> /\ Head(rest) = Head(rows).id THEN rest
            ELSE <<Head(rows).id>> \o rest

\* df.groupby("id")["dockq"].idxmax() for one id: the first position holding the
\* largest present dockq, 0 when every dockq of the group is absent
IdxMax(rows, id) ==
    LET present == {i \in 1..Len(rows) : rows[i].id = id /\ rows[i].dockq # NaN}
    IN IF present = {} THEN 0
       ELSE CHOOSE i \in present :
              \A j \in present : \/ rows[j].dockq[1] < rows[i].dockq[1]
                                 \/ rows[j].dockq[1] = rows[i].dockq[1] /\ i <= j

\* whether df.loc[idx_best] raises: a group without any present dockq has no idxmax
BestDockqRaises(rows) ==
    \E i \in 1..Len(rows) : IdxMax(rows, rows[i].id) = 0

\* df.loc[idx_best]
BestDockqSubset(rows) ==
    LET ids == GroupIds(rows)
    IN [g \in 1..Len(ids) |-> rows[IdxMax(rows, ids[g])]]

KnownMethods == {"all", "rank1", "best_dockq"}

\* the subset a known method name selects
MethodSubset(name, rows) ==
    CASE name = "all"        -> rows
      [] name = "rank1"      -> Rank1Subset(rows)
      [] name = "best_dockq" -> BestDockqSubset(rows)
      [] OTHER               -> <<>>

\* method_df.columns: every subset keeps the columns of the table
FeatureColumns == IF cdf = <<>> THEN {} ELSE DOMAIN cdf[1]

\* [f for f in features if f not in method_df.columns]
MissingFeatures(feats) == {feats[i] : i \in 1..Len(feats)} \ FeatureColumns

TooSmallOffByOne(sub) == Len(sub) <= 3

\* len(method_df) <= 2
TooSmall(sub) == Len(sub) <= 2

WithMethod(rows, name) ==
    [i \in 1..Len(rows) |->
        [method  |-> name,
         feature |-> rows[i].feature,
         metric  |-> rows[i].metric,
         r       |-> rows[i].r,
         p_value |-> rows[i].p_value]]

\* ---- the tables and requests correlation() is given ----

CorrIds    == <<"a", "b", "c">>
CorrRanks  == {1, 2}
DockqCells == {NaN, Num(1), Num(2)}
PtmCells   == {1, 2}
PlddtCells == {1, 2}

\* (position of the id in CorrIds, rank): targets a and b have two ranked models,
\* target c one
Keys == {<<i, rank>> : i \in 1..Len(CorrIds), rank \in CorrRanks} \ {<<3, 2>>}

KeyLess(a, b) == a[1] < b[1] \/ (a[1] = b[1] /\ a[2] < b[2])

RECURSIVE SortKeys(_)
SortKeys(S) ==
    IF S = {} THEN <<>>
    ELSE LET m == CHOOSE x \in S : \A y \in S \ {x} : KeyLess(x, y)
         IN <<m>> \o SortKeys(S \ {m})

\* key sets of at most MaxRows rows whose ids are used in order (a, then b, then c)
KeySets ==
    {K \in SUBSET Keys :
        /\ Cardinality(K) <= MaxRows
        /\ \A key \in K : key[1] > 1 => \E other \in K : other[1] = key[1] - 1}

Cells == [dockq : DockqCells, ptm : PtmCells, plddt : PlddtCells]

\* one row per (id, rank), sorted by id and rank
Table(K, cells) ==
    LET keys == SortKeys(K)
    IN [i \in 1..Len(keys) |->
          [id    |-> CorrIds[keys[i][1]],
           rank  |-> keys[i][2],
           dockq |-> cells[i].dockq,
           ptm   |-> cells[i].ptm,
           plddt |-> cells[i].plddt]]

Requests ==
    { [methods |-> <<"all", "rank1", "best_dockq">>,
       metrics |-> {"pearson", "spearman"}, features |-> <<"ptm", "plddt">>],
      [methods |-> <<"all", "rank001", "best_dockq">>,
       metrics |-> {"pearson"}, features |-> <<"plddt", "ptm">>],
      [methods |-> <<"all">>,
       metrics |-> {}, features |-> <<"ptm">>] }

ScoreIdle ==
    /\ df_model = <<>> /\ df_native = {} /\ model_files = {} /\ native_files = {}
    /\ tmp_exists = FALSE /\ pc = "idle" /\ error = "none" /\ df = <<>>
    /\ results = <<>> /\ invoked = {} /\ df_results = <<>>

InitCorr ==
    /\ \E K \in KeySets : \E cells \in [1..Cardinality(K) -> Cells] :
          cdf = Table(K, cells)
    /\ \E req \in Requests :
          /\ methods = req.methods
          /\ metrics = req.metrics
          /\ features = req.features
    /\ k = 0
    /\ method_df = <<>>
    /\ all_results = <<>>
    /\ cpc = "loop"
    /\ report = <<>>
    /\ ScoreIdle
    /\ CliIdle

\* the method name is none of all, rank1, best_dockq: continue
SkipUnknown ==
    /\ cpc = "loop"
    /\ k < Len(methods)
    /\ methods[k + 1] \notin KnownMethods
    /\ k' = k + 1
    /\ UNCHANGED <<cdf, methods, metrics, features, method_df, all_results, cpc,
                   report, scoreVars, cliVars>>

\* best_dockq on a table in which some id has no present dockq: the selection
\* raises outside the try block and correlation() ends with the exception
SelectionRaises ==
    /\ cpc = "loop"
    /\ k < Len(methods)
    /\ methods[k + 1] = "best_dockq"
    /\ BestDockqRaises(cdf)
    /\ cpc' = "raised"
    /\ UNCHANGED <<cdf, methods, metrics, features, k, method_df, all_results,
                   report, scoreVars, cliVars>>

Selectable ==
    /\ cpc = "loop"
    /\ k < Len(methods)
    /\ methods[k + 1] \in KnownMethods
    /\ methods[k + 1] = "best_dockq" => ~BestDockqRaises(cdf)

\* the subset has two rows or fewer (or lacks a requested column): continue
SkipSubset ==
    /\ Selectable
    /\ LET sub == MethodSubset(methods[k + 1], cdf)
       IN /\ TooSmall(sub) \/ MissingFeatures(features) # {}
          /\ method_df' = sub
    /\ k' = k + 1
    /\ UNCHANGED <<cdf, methods, metrics, features, all_results, cpc, report,
                   scoreVars, cliVars>>

\* the subset is handed to compute_correlations; its rows are kept unless it raised
ComputeSubset ==
    /\ Selectable
    /\ LET sub == MethodSubset(methods[k + 1], cdf)
           res == ComputeCorrelations(sub, metrics, features)
       IN /\ ~TooSmall(sub)
          /\ MissingFeatures(features) = {}
          /\ method_df' = sub
          /\ all_results' = IF res.raised THEN all_results
                            ELSE Append(all_results, WithMethod(res.rows, methods[k + 1]))
    /\ k' = k + 1
    /\ UNCHANGED <<cdf, methods, metrics, features, cpc, report, scoreVars, cliVars>>

\* after the loop: pd.concat(all_results), or an empty frame
Finish ==
    /\ cpc = "loop"
    /\ k = Len(methods)
    /\ report' = Flatten(all_results)
    /\ cpc' = "done"
    /\ UNCHANGED <<cdf, methods, metrics, features, k, method_df, all_results,
                   scoreVars, cliVars>>

NextCorr == SkipUnknown \/ SelectionRaises \/ SkipSubset \/ ComputeSubset \/ Finish

SpecCorr == InitCorr /\ [][NextCorr]_vars

------------------------------------------------------------------------------
(* Claims about correlation() (checked under SpecCorr) *)

\* positions of methods already handled whose name selects a subset
Handled == {j \in 1..k : methods[j] \in KnownMethods}

\* the rows collected so far (after Finish: the rows of the report)
Collected == IF cpc = "done" THEN report ELSE Flatten(all_results)

RowsOf(name) == {i \in 1..Len(Collected) : Collected[i].method = name}

RowsFor3(name, feat, kind) ==
    {i \in RowsOf(name) : Collected[i].feature = feat /\ Collected[i].metric = kind}

FeatureSet == {features[i] : i \in 1..Len(features)}

\* the rows of a subset whose dockq is present
PresentRows(sub) == SelectSeq(sub, LAMBDA row : row.dockq # NaN)

\* the coefficient of one statistic kind over the rows of a subset
Coefficient(kind, sub, feat) ==
    IF kind = "pearson" THEN PearsonR(Column(sub, feat), Column(sub, "dockq"))
    ELSE SpearmanR(Column(sub, feat), Column(sub, "dockq"))

\* C5: every coefficient reported for a subset is the coefficient over the rows of
\* that subset whose dockq is present; rows with an absent dockq are left out of
\* the sample and do not invalidate the coefficient.
C5_AbsentScoreExcludedFromSample ==
    \A j \in Handled :
        \A i \in RowsOf(methods[j]) :
            Collected[i].r = Coefficient(Collected[i].metric,
                                         PresentRows(MethodSubset(methods[j], cdf)),
                                         Collected[i].feature)

C9_ConstantFeatureUndefined ==
    \A j \in Handled :
        LET sub == MethodSubset(methods[j], cdf)
        IN Len(sub) >= 3 =>
             \A feat \in FeatureSet :
                (\A a, b \in 1..Len(sub) : sub[a][feat] = sub[b][feat]) =>
                    \A kind \in metrics :
                        /\ Cardinality(RowsFor3(methods[j], feat, kind)) = 1
                        /\ \A i \in RowsFor3(methods[j], feat, kind) :
                              Collected[i].r = NaN /\ Collected[i].p_value = NaN

C9_Witness ==
    /\ cpc = "done"
    /\ \E j \in Handled :
          LET sub == MethodSubset(methods[j], cdf)
          IN /\ Len(sub) >= 3
             /\ \A a, b \in 1..Len(sub) : sub[a].ptm = sub[b].ptm
             /\ \E a, b \in 1..Len(sub) : sub[a].dockq # NaN /\ sub[b].dockq # NaN
                                          /\ sub[a].dockq # sub[b].dockq
             /\ \E i \in RowsFor3(methods[j], "ptm", "pearson") : Collected[i].r = NaN
             /\ \E i \in RowsFor3(methods[j], "ptm", "spearman") : Collected[i].r = NaN

\* the best (smallest) rank among the rows of a target id
BestRank(rows, id) ==
    CHOOSE r \in {rows[i].rank : i \in {x \in 1..Len(rows) : rows[x].id = id}} :
        \A i \in 1..Len(rows) : rows[i].id = id => r <= rows[i].rank

Rank1Handled == cpc # "raised" /\ k >= 1 /\ methods[k] = "rank1"

\* C10 as stated: the top-rank subset is exactly the rows whose rank is the best
\* rank present for their target id, so every target id contributes a row.
C10_TopRankIsBestRankPerTarget ==
    Rank1Handled =>
        method_df = SelectSeq(cdf, LAMBDA row : row.rank = BestRank(cdf, row.id))

\* C10 as amended: the rank1 subset is exactly the rows whose rank is 1; a target
\* id whose best rank is not 1 contributes no row to it.
C10_Rank1IsRankOne ==
    Rank1Handled =>
        /\ \A i \in 1..Len(method_df) : method_df[i].rank = 1
        /\ Len(method_df) = Cardinality({i \in 1..Len(cdf) : cdf[i].rank = 1})
        /\ \A i \in 1..Len(method_df) : \E c \in 1..Len(cdf) : cdf[c] = method_df[i]
        /\ \A i \in 1..Len(cdf) :
              BestRank(cdf, cdf[i].id) # 1 =>
                 \A m \in 1..Len(method_df) : method_df[m].id # cdf[i].id

C10_Witness ==
    /\ Rank1Handled
    /\ method_df # <<>>
    /\ \E i \in 1..Len(cdf) : BestRank(cdf, cdf[i].id) = 2

------------------------------------------------------------------------------
(* metrics.py and correlation.main: the command line (SpecCli) *)

\* command-line values are sequences of one-character strings

\* metrics.py build_parser: default of --methods
CliDefaultMethods ==
    <<"a", "l", "l", ",", "r", "a", "n", "k", "0", "0", "1", ",", "b", "e", "s", "t", "_", "d", "o", "c", "k", "q">>

\* metrics.py build_parser: the list the help of --methods gives as available
CliAvailableMethods ==
    <<"a", "l", "l", ",", "r", "a", "n", "k", "0", "0", "1", ",", "b", "e", "s", "t", "_", "d", "o", "c", "k", "q">>

\* metrics.py build_parser: defaults of --metrics and --features
CliDefaultMetrics ==
    <<"p", "e", "a", "r", "s", "o", "n", ",", "s", "p", "e", "a", "r", "m", "a", "n">>
CliDefaultFeatures == <<"p", "t", "m", ",", "p", "l", "d", "d", "t", ",", "i", "p", "t", "m">>

\* correlation.py build_correlation_parser: defaults of --methods, --metrics, --features
CorrDefaultMethods ==
    <<"a", "l", "l", ",", "r", "a", "n", "k", "1", ",", "b", "e", "s", "t", "_", "d", "o", "c", "k", "q">>
CorrDefaultMetrics ==
    <<"p", "e", "a", "r", "s", "o", "n", ",", "s", "p", "e", "a", "r", "m", "a", "n">>
CorrDefaultFeatures == <<"p", "t", "m", ",", "p", "l", "d", "d", "t", ",", "i", "p", "t", "m">>

\* a --methods value a user types, with a blank after the comma
UserMethods == <<"r", "a", "n", "k", "1", ",", " ", "a", "l", "l">>

\* a path given on the command line
SomePath == <<"p">>

\* the options build_correlation_parser declares, and those it requires
CorrOptions == {"--metrics.dockq", "--output_dir", "--metrics", "--features",
                "--methods", "--name"}
CorrRequired == {"--metrics.dockq", "--output_dir"}

\* the option names present on a command line
Given(av) == {av[i].opt : i \in 1..Len(av)}

\* parse_args ends the process when an option is not declared or a required one
\* is absent
ParseError(av) == Given(av) \ CorrOptions # {} \/ CorrRequired \ Given(av) # {}

\* the value parse_args stores for an option: the last one given, else the default
ArgValue(av, opt, default) ==
    IF opt \in Given(av)
    THEN av[CHOOSE i \in 1..Len(av) :
               av[i].opt = opt /\ \A j \in (i + 1)..Len(av) : av[j].opt # opt].val
    ELSE default

RECURSIVE SplitAt(_, _, _)
SplitAt(s, sep, piece) ==
    IF s = <<>> THEN <<piece>>
    ELSE IF Head(s) = sep THEN <<piece>> \o SplitAt(Tail(s), sep, <<>>)
    ELSE SplitAt(Tail(s), sep, Append(piece, Head(s)))

\* s.split(sep)
Split(s, sep) == SplitAt(s, sep, <<>>)

RECURSIVE LStrip(_)
LStrip(s) == IF s # <<>> /\ Head(s) = " " THEN LStrip(Tail(s)) ELSE s

RECURSIVE RStrip(_)
RStrip(s) ==
    IF s # <<>> /\ s[Len(s)] = " " THEN RStrip(SubSeq(s, 1, Len(s) - 1)) ELSE s

\* s.strip()
Strip(s) == RStrip(LStrip(s))

\* the names the rest of the model writes as strings, and how each is spelled
Words == {"all", "rank1", "rank001", "best_dockq", "pearson", "spearman", "ptm", "plddt", "iptm"}

Spelling(w) ==
    CASE w = "all" -> <<"a", "l", "l">>
      [] w = "rank1" -> <<"r", "a", "n", "k", "1">>
      [] w = "rank001" -> <<"r", "a", "n", "k", "0", "0", "1">>
      [] w = "best_dockq" -> <<"b", "e", "s", "t", "_", "d", "o", "c", "k", "q">>
      [] w = "pearson" -> <<"p", "e", "a", "r", "s", "o", "n">>
      [] w = "spearman" -> <<"s", "p", "e", "a", "r", "m", "a", "n">>
      [] w = "ptm" -> <<"p", "t", "m">>
      [] w = "plddt" -> <<"p", "l", "d", "d", "t">>
      [] w = "iptm" -> <<"i", "p", "t", "m">>

\* the name a piece of a command-line value spells ("?" for any other text)
Word(piece) ==
    IF \E w \in Words : Spelling(w) = piece
    THEN CHOOSE w \in Words : Spelling(w) = piece
    ELSE "?"

\* [x.strip() for x in value.split(",")]
ParseList(value) ==
    LET pieces == Split(value, ",")
    IN [i \in 1..Len(pieces) |-> Word(Strip(pieces[i]))]

\* ---- the table file and the launches ----

\* one value: the iptm column is present, its values play no part in the launch
IptmCells == {1}

CliCells == [dockq : DockqCells, ptm : PtmCells, plddt : PlddtCells, iptm : IptmCells]

\* a table with the three feature columns the command-line defaults name
CliTable(K, cells) ==
    LET keys == SortKeys(K)
    IN [i \in 1..Len(keys) |->
          [id    |-> CorrIds[keys[i][1]],
           rank  |-> keys[i][2],
           dockq |-> cells[i].dockq,
           ptm   |-> cells[i].ptm,
           plddt |-> cells[i].plddt,
           iptm  |-> cells[i].iptm]]

\* cdf holds the content of the table file from the start; correlation.main reads it
InitCli ==
    /\ \E K \in KeySets : \E cells \in [1..Cardinality(K) -> CliCells] :
          cdf = CliTable(K, cells)
    /\ methods = <<>>
    /\ metrics = {}
    /\ features = <<>>
    /\ k = 0
    /\ method_df = <<>>
    /\ all_results = <<>>
    /\ cpc = "cli"
    /\ report = <<>>
    /\ argv = <<>>
    /\ ScoreIdle

\* metrics.py main, --correlation branch: the command line it sets for
\* correlation.main carries args.metrics, args.features and args.methods, each
\* the user's value or the default of build_parser
MetricsMain ==
    /\ cpc = "cli"
    /\ \E m \in {CliDefaultMethods, UserMethods} :
          argv' = << [opt |-> "--data.dockq", val |-> SomePath],
                     [opt |-> "--output_dir", val |-> SomePath],
                     [opt |-> "--metrics",    val |-> CliDefaultMetrics],
                     [opt |-> "--features",   val |-> CliDefaultFeatures],
                     [opt |-> "--methods",    val |-> m],
                     [opt |-> "--name",       val |-> SomePath] >>
    /\ cpc' = "corr_main"
    /\ UNCHANGED <<cdf, methods, metrics, features, k, method_df, all_results,
                   report, scoreVars>>

\* correlation.py run as a program: the user gives the two required options and
\* may give --methods
DirectLaunch ==
    /\ cpc = "cli"
    /\ \E given \in {<<>>, <<CliDefaultMethods>>, <<UserMethods>>} :
          argv' = << [opt |-> "--metrics.dockq", val |-> SomePath],
                     [opt |-> "--output_dir",    val |-> SomePath] >>
                  \o [i \in 1..Len(given) |-> [opt |-> "--methods", val |-> given[i]]]
    /\ cpc' = "corr_main"
    /\ UNCHANGED <<cdf, methods, metrics, features, k, method_df, all_results,
                   report, scoreVars>>

\* correlation.main up to the call of correlation(): parse_args, then the three
\* comma-separated values are split and stripped
CorrMain ==
    /\ cpc = "corr_main"
    /\ IF ParseError(argv)
       THEN /\ cpc' = "usage_error"
            /\ UNCHANGED <<methods, metrics, features>>
       ELSE /\ metrics' =
                 SeqToSet(ParseList(ArgValue(argv, "--metrics", CorrDefaultMetrics)))
            /\ methods' = ParseList(ArgValue(argv, "--methods", CorrDefaultMethods))
            /\ features' = ParseList(ArgValue(argv, "--features", CorrDefaultFeatures))
            /\ cpc' = "loop"
    /\ UNCHANGED <<cdf, k, method_df, all_results, report, argv, scoreVars>>

NextCli == MetricsMain \/ DirectLaunch \/ CorrMain \/ NextCorr

SpecCli == InitCli /\ [][NextCli]_vars

------------------------------------------------------------------------------
(* Claims about the command line (checked under SpecCli) *)

\* the --methods value correlation.main works from
MethodsArg == ArgValue(argv, "--methods", CorrDefaultMethods)

\* correlation() was entered with the method list metrics.py defaults to and
\* gives as available
CliListPassed ==
    /\ cpc \in {"loop", "raised", "done"}
    /\ argv # <<>>
    /\ MethodsArg \in {CliDefaultMethods, CliAvailableMethods}

\* the method names the report has rows for
ReportedMethods == {report[i].method : i \in 1..Len(report)}

\* C11: when correlation() works from the method list that metrics.py uses as its
\* default and advertises as available (all, rank001, best_dockq), no name of
\* the list already handled was taken as unknown and skipped, and a finished
\* run over a table whose whole, rank-1 and best-score subsets each have at least
\* three rows reports rows under three method names.
C11_CliDefaultMethodsRecognised ==
    CliListPassed =>
       /\ \A j \in 1..k : methods[j] \in KnownMethods
       /\ ( /\ cpc = "done"
            /\ Len(cdf) >= 3
            /\ Len(Rank1Subset(cdf)) >= 3
            /\ Len(BestDockqSubset(cdf)) >= 3 )
          => Cardinality(ReportedMethods) = 3

====
